---- MODULE Spec2Model ----
(***************************************************************************)
(* Model of src/src/limits.ts: the session guard of the usage limiter.     *)
(*                                                                         *)
(* One atomic step per key-value store access (every kv.get / kv.put is a  *)
(* suspension point of the async code); the synchronous code that follows  *)
(* an access, up to the next access, belongs to the same step.             *)
(*                                                                         *)
(* Stored strings: an absent key is <<>>, the decimal string of a number n *)
(* is <<n>>, and the JSON text of a history array h is <<h>>.              *)
(* The clock counts milliseconds from a model epoch (day 0 = 1970-01-01).  *)
(***************************************************************************)
EXTENDS Integers, Sequences, FiniteSets, TLC

\* ------------------------------------------------------------------ bounds
NumGuards == 2
\* createSessionGuard() calls when only admissions run (AdmitGuards >= NumGuards).
AdmitGuards == 3
MaxCommits == 2
MaxCloses == 2
MaxTicks == 1
\* Calls per guard when guards run concurrently.
ConcCommits == 1
ConcCloses == 1

\* ------------------------------------------------------- program constants
ACTIVE_SESSIONS_KEY == "active-sessions"
USAGE_BYTES_KEY == "usage-bytes"
LAST_RESET_KEY == "last-reset"
SESSION_HISTORY_KEY == "session-history"

ReasonExpired == "Configuration expired."
ReasonVolume == "Volume limit reached."
ReasonUsers == "Maximum simultaneous users reached."

HistoryMax == 50
FlushThreshold == 64 * 1024
MsPerDay == 24 * 60 * 60 * 1000
GiB == 1024 * 1024 * 1024

\* --------------------------------------------------------------- universe
Guards == 1 .. AdmitGuards
Profiles == {"", "a", "b"}
userID == "u"

\* Date.now() at the start of a behaviour, and the amount one tick adds.
ClockStart == 2 * MsPerDay
ClockStep == MsPerDay
ClockValues == {ClockStart + i * ClockStep : i \in 0 .. MaxTicks}

\* new Date().toISOString().slice(0, 10)
DayNames == <<"1970-01-01", "1970-01-02", "1970-01-03", "1970-01-04",
              "1970-01-05", "1970-01-06", "1970-01-07", "1970-01-08">>
ToISODate(ms) == DayNames[(ms \div MsPerDay) + 1]
Days == {ToISODate(t) : t \in ClockValues}

\* ------------------------------------------------------------ small maths
Max(a, b) == IF a >= b THEN a ELSE b
Min(a, b) == IF a <= b THEN a ELSE b

\* Optional values (undefined | v) are <<>> | <<v>>.
Undefined == <<>>
Some(v) == <<v>>
IsDefined(o) == o # <<>>

\* history.slice(0, n)
Slice(s, n) == SubSeq(s, 1, Min(Len(s), n))

\* ------------------------------------------------------------------- keys
\* One key prefix for every profile.
KeyPrefixShared(profile) == "limits:"

\* const keyPrefix = profile ? `limits:profile:${profile}:` : 'limits:';
KeyPrefix(profile) ==
    IF profile # "" THEN "limits:profile:" \o profile \o ":" ELSE "limits:"

DailyKey(keyPrefix, day) == keyPrefix \o "daily:" \o day

\* The keys one namespace owns.
NamespaceKeys(profile) ==
    {KeyPrefix(profile) \o k :
        k \in {ACTIVE_SESSIONS_KEY, USAGE_BYTES_KEY, LAST_RESET_KEY,
               SESSION_HISTORY_KEY}}
    \cup {DailyKey(KeyPrefix(profile), d) : d \in Days}

AllKeys == UNION {NamespaceKeys(p) : p \in Profiles}

\* ------------------------------------------------------- store conversions
Absent == <<>>
\* String(n)
String(n) == <<n>>
\* JSON.stringify(history)
Stringify(h) == <<h>>

\* getNumber: Number(value ?? 0), 0 when not finite.
GetNumber(store, key) ==
    IF store[key] = Absent THEN 0 ELSE store[key][1]

\* historyRaw ? JSON.parse(historyRaw) : []
ParseHistory(store, key) ==
    IF store[key] = Absent THEN <<>> ELSE store[key][1]

\* --------------------------------------------------------- quota resolver
\* The users limit with the profile value taken whenever it is defined.
MaxUsersLimitWhenDefined(st, ws) ==
    IF IsDefined(ws.profileUsersLimit)
    THEN ws.profileUsersLimit[1]
    ELSE st.configMaxUsers

\* profileUsersLimit && profileUsersLimit > 0 ? profileUsersLimit : configMaxUsers
MaxUsersLimit(st, ws) ==
    IF IsDefined(ws.profileUsersLimit) /\ ws.profileUsersLimit[1] > 0
    THEN ws.profileUsersLimit[1]
    ELSE st.configMaxUsers

\* profileDurationDays !== undefined ? profileDurationDays : configDurationDays
DurationDaysLimit(st, ws) ==
    IF IsDefined(ws.profileDurationDays)
    THEN ws.profileDurationDays[1]
    ELSE st.configDurationDays

\* profileVolumeGB !== undefined ? profileVolumeGB : configVolumeGB
\* A GB value is the rational num / den.
VolumeGbLimit(st, ws) ==
    IF IsDefined(ws.profileVolumeGB)
    THEN ws.profileVolumeGB[1]
    ELSE st.configVolumeGB

\* volumeGbLimit > 0 ? Math.floor(volumeGbLimit * 1024 * 1024 * 1024) : 0
\* floor(num * GiB / den), computed without leaving 32 bits.
TotalBytesLimit(gb) ==
    IF gb.num > 0
    THEN gb.num * (GiB \div gb.den) + (gb.num * (GiB % gb.den)) \div gb.den
    ELSE 0

\* The check of line 30 with > written for >=.
ExpiredStrict(now, expireAt) == expireAt > 0 /\ now > expireAt

\* Line 30: expireAt > 0 && now >= expireAt
Expired(now, expireAt) == expireAt > 0 /\ now >= expireAt

\* Line 39: totalBytesLimit > 0 && currentUsage >= totalBytesLimit
VolumeReached(totalBytesLimit, currentUsage) ==
    totalBytesLimit > 0 /\ currentUsage >= totalBytesLimit

\* The check of line 44 with > written for >=.
UsersReachedOffByOne(maxUsersLimit, activeSessions) ==
    maxUsersLimit > 0 /\ activeSessions > maxUsersLimit

\* Line 44: maxUsersLimit > 0 && activeSessions >= maxUsersLimit
UsersReached(maxUsersLimit, activeSessions) ==
    maxUsersLimit > 0 /\ activeSessions >= maxUsersLimit

\* Line 87 without its condition: the volume check runs for every limit.
ChecksVolumeAlways(totalBytesLimit) == TRUE

\* Line 87: if (totalBytesLimit > 0)
ChecksVolume(totalBytesLimit) == totalBytesLimit > 0

\* The check of line 89 with >= written for >.
OverLimitInclusive(totalBytesLimit, latestUsage, bufferedBytes) ==
    latestUsage + bufferedBytes >= totalBytesLimit

\* The check of line 89 without the stored usage.
OverLimitBufferOnly(totalBytesLimit, latestUsage, bufferedBytes) ==
    bufferedBytes > totalBytesLimit

\* Line 89: latestUsage + bufferedBytes > totalBytesLimit
OverLimit(totalBytesLimit, latestUsage, bufferedBytes) ==
    latestUsage + bufferedBytes > totalBytesLimit

\* close() without the test of line 104.
AlreadyClosedNever(gr) == FALSE

\* Line 104: if (isClosed) return;
AlreadyClosed(gr) == gr.isClosed

\* Line 109 without the decrement.
FinalActiveNoDecrement(latestActive) == Max(latestActive, 0)

\* Line 109: Math.max(latestActive - 1, 0)
FinalActive(latestActive) == Max(latestActive - 1, 0)

\* durationDaysLimit > 0 ? createdAt + durationDaysLimit * 24*60*60*1000 : 0
ExpireAt(createdAt, durationDaysLimit) ==
    IF durationDaysLimit > 0 THEN createdAt + durationDaysLimit * MsPerDay ELSE 0

\* ------------------------------------------------------------------ state
VARIABLES
    kv,         \* the key-value store: [AllKeys -> stored string]
    clock,      \* Date.now()
    settings,   \* globalThis.settings
    wsConfig,   \* globalThis.wsConfig
    guard,      \* per createSessionGuard() call: its position and closure variables
    calls,      \* per guard and call slot: a commit/close call in flight
    stats,      \* per guard: calls made, commits thrown, decrements and `end` entries written
    touched,    \* per guard: the store keys it has read or written
    mode        \* how the session layer schedules the operations (see Free)

vars == <<kv, clock, settings, wsConfig, guard, calls, stats, touched, mode>>

Slots == 1 .. 2

\* A history entry. Its timestamp and durationSec fields are left out: nothing
\* reads them back.
NoEntry == [type |-> "none", userID |-> "", profile |-> "", sessionId |-> 0,
            bytes |-> Undefined, activeSessions |-> 0]

IdleGuard ==
    [pc |-> "idle", profile |-> "", keyPrefix |-> "", now |-> 0,
     maxUsersLimit |-> 0, durationDaysLimit |-> 0, totalBytesLimit |-> 0,
     createdAt |-> -1, currentUsage |-> -1, activeSessions |-> -1,
     history |-> <<>>, allow |-> FALSE, reason |-> "",
     isClosed |-> FALSE, bufferedBytes |-> 0, sessionBytes |-> 0]

NoCall ==
    [op |-> "none", pc |-> "none", latestUsage |-> 0, dailyKey |-> "",
     dailyUsage |-> 0, putValue |-> 0, finalActive |-> 0, history |-> <<>>,
     entry |-> NoEntry]

NoStats == [commits |-> 0, closes |-> 0, thrown |-> 0, decrements |-> 0, ends |-> 0]

\* A fresh store: no key has a value.
FreshStore == [k \in AllKeys |-> Absent]

Touch(g, k) == touched' = [touched EXCEPT ![g] = @ \cup {k}]

\* ---------------------------------------------------- createSessionGuard
\* function deny(reason): the guard returned has allow = false and no-op methods.
\* The variables of the admission path (now, createdAt, currentUsage,
\* activeSessions) are dead once the guard is returned and are reset.
Returned(gr) ==
    [gr EXCEPT !.pc = "done", !.now = 0, !.createdAt = -1, !.currentUsage = -1,
               !.activeSessions = -1, !.history = <<>>]

Deny(gr, why) == [Returned(gr) EXCEPT !.allow = FALSE, !.reason = why]

\* Lines 28-32, once createdAt is known: the expiry check.
AfterCreatedAt(gr, createdAt) ==
    LET expireAt == ExpireAt(createdAt, gr.durationDaysLimit)
        gr1 == [gr EXCEPT !.createdAt = createdAt]
    IN  IF Expired(gr.now, expireAt)
        THEN Deny(gr1, ReasonExpired)
        ELSE [gr1 EXCEPT !.pc = "getUsage"]

\* Lines 15-27: the request's wsConfig is ws; read the configuration, take
\* `now`, issue the first kv.get.
StartOpen(g, ws) ==
    /\ guard[g].pc = "idle"
    /\ wsConfig' = ws
    /\ guard' = [guard EXCEPT ![g] =
            [@ EXCEPT !.pc = "getCreatedAt",
                      !.profile = ws.profile,
                      !.keyPrefix = KeyPrefix(ws.profile),
                      !.now = clock,
                      !.maxUsersLimit = MaxUsersLimit(settings, ws),
                      !.durationDaysLimit = DurationDaysLimit(settings, ws),
                      !.totalBytesLimit =
                          TotalBytesLimit(VolumeGbLimit(settings, ws))]]
    /\ UNCHANGED <<kv, clock, settings, calls, stats, touched, mode>>

\* getOrInitCreatedAt without the test of lines 138-141: every call stores `now`.
OpenGetCreatedAtAlwaysInit(g) ==
    /\ guard[g].pc = "getCreatedAt"
    /\ guard' = [guard EXCEPT ![g].pc = "putCreatedAt"]
    /\ Touch(g, guard[g].keyPrefix \o LAST_RESET_KEY)
    /\ UNCHANGED <<kv, clock, settings, wsConfig, calls, stats, mode>>

\* getOrInitCreatedAt clearing a window it finds expired.
OpenGetCreatedAtResets(g) ==
    /\ guard[g].pc = "getCreatedAt"
    /\ LET key == guard[g].keyPrefix \o LAST_RESET_KEY
           raw == kv[key]
           valid == raw # Absent /\ raw[1] > 0
           next == IF valid
                   THEN AfterCreatedAt(guard[g], raw[1])
                   ELSE [guard[g] EXCEPT !.pc = "putCreatedAt"]
       IN  /\ guard' = [guard EXCEPT ![g] = next]
           /\ kv' = IF valid /\ next.pc = "done"
                    THEN [kv EXCEPT ![key] = Absent]
                    ELSE kv
           /\ Touch(g, key)
    /\ UNCHANGED <<clock, settings, wsConfig, calls, stats, mode>>

\* getOrInitCreatedAt, lines 137-141: kv.get(key); a stored value > 0 is returned.
OpenGetCreatedAt(g) ==
    /\ guard[g].pc = "getCreatedAt"
    /\ LET key == guard[g].keyPrefix \o LAST_RESET_KEY
           raw == kv[key]
       IN  /\ guard' = [guard EXCEPT ![g] =
                IF raw # Absent /\ raw[1] > 0
                THEN AfterCreatedAt(@, raw[1])
                ELSE [@ EXCEPT !.pc = "putCreatedAt"]]
           /\ Touch(g, key)
    /\ UNCHANGED <<kv, clock, settings, wsConfig, calls, stats, mode>>

\* getOrInitCreatedAt, lines 143-144: kv.put(key, String(now)); return now.
OpenPutCreatedAt(g) ==
    /\ guard[g].pc = "putCreatedAt"
    /\ LET key == guard[g].keyPrefix \o LAST_RESET_KEY IN
           /\ kv' = [kv EXCEPT ![key] = String(guard[g].now)]
           /\ guard' = [guard EXCEPT ![g] = AfterCreatedAt(@, @.now)]
           /\ Touch(g, key)
    /\ UNCHANGED <<clock, settings, wsConfig, calls, stats, mode>>

\* Lines 38-41: read the usage, the volume check.
OpenGetUsage(g) ==
    /\ guard[g].pc = "getUsage"
    /\ LET key == guard[g].keyPrefix \o USAGE_BYTES_KEY
           currentUsage == GetNumber(kv, key)
       IN  /\ guard' = [guard EXCEPT ![g] =
                LET gr == [@ EXCEPT !.currentUsage = currentUsage] IN
                IF VolumeReached(gr.totalBytesLimit, currentUsage)
                THEN Deny(gr, ReasonVolume)
                ELSE [gr EXCEPT !.pc = "getActive"]]
           /\ Touch(g, key)
    /\ UNCHANGED <<kv, clock, settings, wsConfig, calls, stats, mode>>

\* Lines 43-46: read the session count, the concurrent-sessions check.
OpenGetActive(g) ==
    /\ guard[g].pc = "getActive"
    /\ LET key == guard[g].keyPrefix \o ACTIVE_SESSIONS_KEY
           activeSessions == GetNumber(kv, key)
       IN  /\ guard' = [guard EXCEPT ![g] =
                LET gr == [@ EXCEPT !.activeSessions = activeSessions] IN
                IF UsersReached(gr.maxUsersLimit, activeSessions)
                THEN Deny(gr, ReasonUsers)
                ELSE [gr EXCEPT !.pc = "putActive"]]
           /\ Touch(g, key)
    /\ UNCHANGED <<kv, clock, settings, wsConfig, calls, stats, mode>>

\* Line 48 as an atomic increment of the stored count.
OpenPutActiveAtomic(g) ==
    /\ guard[g].pc = "putActive"
    /\ LET key == guard[g].keyPrefix \o ACTIVE_SESSIONS_KEY IN
           /\ kv' = [kv EXCEPT ![key] = String(GetNumber(kv, key) + 1)]
           /\ Touch(g, key)
    /\ guard' = [guard EXCEPT ![g].pc = "getHistory"]
    /\ UNCHANGED <<clock, settings, wsConfig, calls, stats, mode>>

\* Line 48: kv.put(ACTIVE_SESSIONS_KEY, String(activeSessions + 1)).
OpenPutActive(g) ==
    /\ guard[g].pc = "putActive"
    /\ LET key == guard[g].keyPrefix \o ACTIVE_SESSIONS_KEY IN
           /\ kv' = [kv EXCEPT ![key] = String(guard[g].activeSessions + 1)]
           /\ Touch(g, key)
    /\ guard' = [guard EXCEPT ![g].pc = "getHistory"]
    /\ UNCHANGED <<clock, settings, wsConfig, calls, stats, mode>>

\* The `start` entry of lines 51-58; the session id is the guard's index.
StartEntry(g) ==
    [type |-> "start", userID |-> userID,
     profile |-> IF guard[g].profile # "" THEN guard[g].profile ELSE "default",
     sessionId |-> g, bytes |-> Undefined,
     activeSessions |-> guard[g].activeSessions + 1]

\* appendSessionHistory without the slice of line 157.
AppendedNoCap(history, entry) == <<entry>> \o history

\* appendSessionHistory, lines 156-157: history.unshift(entry); slice(0, 50).
Appended(history, entry) == Slice(<<entry>> \o history, HistoryMax)

\* appendSessionHistory, lines 154-155, called from line 51.
OpenGetHistory(g) ==
    /\ guard[g].pc = "getHistory"
    /\ LET key == guard[g].keyPrefix \o SESSION_HISTORY_KEY IN
           /\ guard' = [guard EXCEPT ![g].pc = "putHistory",
                                     ![g].history = ParseHistory(kv, key)]
           /\ Touch(g, key)
    /\ UNCHANGED <<kv, clock, settings, wsConfig, calls, stats, mode>>

\* appendSessionHistory, lines 156-157, then lines 60-62 and the return of the
\* allowed guard (line 95).
OpenPutHistory(g) ==
    /\ guard[g].pc = "putHistory"
    /\ LET key == guard[g].keyPrefix \o SESSION_HISTORY_KEY IN
           /\ kv' = [kv EXCEPT ![key] =
                        Stringify(Appended(guard[g].history, StartEntry(g)))]
           /\ Touch(g, key)
    /\ guard' = [guard EXCEPT ![g] =
            [Returned(@) EXCEPT !.allow = TRUE, !.isClosed = FALSE,
                                !.bufferedBytes = 0, !.sessionBytes = 0]]
    /\ UNCHANGED <<clock, settings, wsConfig, calls, stats, mode>>

\* ------------------------------------------------------------- flushUsage
\* Where a call goes on once its flushUsage() has returned: addBytes goes to the
\* volume check of lines 87-92 (or returns when no limit is set), close to line 108.
AfterFlush(gr, c) ==
    IF c.op = "close"
    THEN [c EXCEPT !.pc = "closeGetActive"]
    ELSE IF ChecksVolume(gr.totalBytesLimit)
         THEN [c EXCEPT !.pc = "recheck"]
         ELSE NoCall

\* flushUsage storing the buffer in place of latestUsage + bufferedBytes.
FlushGetUsageIgnoresStored(g, s) ==
    /\ calls[g][s].pc = "flushGetUsage"
    /\ LET key == guard[g].keyPrefix \o USAGE_BYTES_KEY IN
           /\ calls' = [calls EXCEPT ![g][s].pc = "flushPutUsage",
                                     ![g][s].latestUsage = GetNumber(kv, key),
                                     ![g][s].putValue = guard[g].bufferedBytes]
           /\ Touch(g, key)
    /\ UNCHANGED <<kv, clock, settings, wsConfig, guard, stats, mode>>

\* Lines 67-68: latestUsage = await getNumber(USAGE_BYTES_KEY); the argument of
\* the kv.put of line 68 is evaluated as the put is issued.
FlushGetUsage(g, s) ==
    /\ calls[g][s].pc = "flushGetUsage"
    /\ LET key == guard[g].keyPrefix \o USAGE_BYTES_KEY
           latestUsage == GetNumber(kv, key)
       IN  /\ calls' = [calls EXCEPT ![g][s].pc = "flushPutUsage",
                                     ![g][s].latestUsage = latestUsage,
                                     ![g][s].putValue =
                                         latestUsage + guard[g].bufferedBytes]
           /\ Touch(g, key)
    /\ UNCHANGED <<kv, clock, settings, wsConfig, guard, stats, mode>>

\* Lines 68-71: the kv.put of String(latestUsage + bufferedBytes) takes effect,
\* then the daily key of the current day.
FlushPutUsage(g, s) ==
    /\ calls[g][s].pc = "flushPutUsage"
    /\ LET key == guard[g].keyPrefix \o USAGE_BYTES_KEY IN
           /\ kv' = [kv EXCEPT ![key] = String(calls[g][s].putValue)]
           /\ Touch(g, key)
    /\ calls' = [calls EXCEPT ![g][s].pc = "flushGetDaily",
                              ![g][s].putValue = 0,
                              ![g][s].dailyKey =
                                  DailyKey(guard[g].keyPrefix, ToISODate(clock))]
    /\ UNCHANGED <<clock, settings, wsConfig, guard, stats, mode>>

\* Lines 72-73: dailyUsage = await getNumber(dailyKey); the argument of the
\* kv.put of line 73 is evaluated as the put is issued.
FlushGetDaily(g, s) ==
    /\ calls[g][s].pc = "flushGetDaily"
    /\ LET key == calls[g][s].dailyKey
           dailyUsage == GetNumber(kv, key)
       IN  /\ calls' = [calls EXCEPT ![g][s].pc = "flushPutDaily",
                                     ![g][s].dailyUsage = dailyUsage,
                                     ![g][s].putValue =
                                         dailyUsage + guard[g].bufferedBytes]
           /\ Touch(g, key)
    /\ UNCHANGED <<kv, clock, settings, wsConfig, guard, stats, mode>>

\* flushUsage without the reset of line 75.
FlushPutDailyKeepsBuffer(g, s) ==
    /\ calls[g][s].pc = "flushPutDaily"
    /\ LET key == calls[g][s].dailyKey IN
           /\ kv' = [kv EXCEPT ![key] = String(calls[g][s].putValue)]
           /\ Touch(g, key)
    /\ calls' = [calls EXCEPT ![g][s] =
                    AfterFlush(guard[g],
                               [@ EXCEPT !.latestUsage = 0, !.dailyKey = "",
                                         !.dailyUsage = 0, !.putValue = 0])]
    /\ UNCHANGED <<clock, settings, wsConfig, guard, stats, mode>>

\* Lines 73-75: the kv.put of String(dailyUsage + bufferedBytes) takes effect;
\* bufferedBytes = 0; flushUsage returns to its caller.
FlushPutDaily(g, s) ==
    /\ calls[g][s].pc = "flushPutDaily"
    /\ LET key == calls[g][s].dailyKey IN
           /\ kv' = [kv EXCEPT ![key] = String(calls[g][s].putValue)]
           /\ Touch(g, key)
    /\ guard' = [guard EXCEPT ![g].bufferedBytes = 0]
    /\ calls' = [calls EXCEPT ![g][s] =
                    AfterFlush(guard[g],
                               [@ EXCEPT !.latestUsage = 0, !.dailyKey = "",
                                         !.dailyUsage = 0, !.putValue = 0])]
    /\ UNCHANGED <<clock, settings, wsConfig, stats, mode>>

\* ------------------------------------------ commitInboundBytes / addBytes
\* addBytes without the threshold test of line 83: every commit flushes.
StartCommitFlushesAlways(g, s, b) ==
    /\ guard[g].pc = "done" /\ guard[g].allow
    /\ calls[g][s].op = "none"
    /\ stats[g].commits < MaxCommits
    /\ stats' = [stats EXCEPT ![g].commits = @ + 1]
    /\ IF ~b.finite \/ b.v <= 0
       THEN UNCHANGED <<guard, calls>>
       ELSE /\ guard' = [guard EXCEPT ![g].bufferedBytes = @ + b.v,
                                      ![g].sessionBytes = @ + b.v]
            /\ calls' = [calls EXCEPT ![g][s] =
                    [NoCall EXCEPT !.op = "commit", !.pc = "flushGetUsage"]]
    /\ UNCHANGED <<kv, clock, settings, wsConfig, touched, mode>>

\* A byte count is [finite |-> Number.isFinite(bytes), v |-> its value].
\* Lines 78-85 (and 87 when no flush is due): the synchronous head of addBytes.
StartCommit(g, s, b) ==
    /\ guard[g].pc = "done" /\ guard[g].allow
    /\ calls[g][s].op = "none"
    /\ stats[g].commits < MaxCommits
    /\ stats' = [stats EXCEPT ![g].commits = @ + 1]
    /\ IF ~b.finite \/ b.v <= 0
       THEN UNCHANGED <<guard, calls>>
       ELSE LET gr == [guard[g] EXCEPT !.bufferedBytes = @ + b.v,
                                       !.sessionBytes = @ + b.v]
            IN  /\ guard' = [guard EXCEPT ![g] = gr]
                /\ calls' = [calls EXCEPT ![g][s] =
                        IF gr.bufferedBytes >= FlushThreshold
                        THEN [NoCall EXCEPT !.op = "commit", !.pc = "flushGetUsage"]
                        ELSE IF ChecksVolume(gr.totalBytesLimit)
                             THEN [NoCall EXCEPT !.op = "commit", !.pc = "recheck"]
                             ELSE NoCall]
    /\ UNCHANGED <<kv, clock, settings, wsConfig, touched, mode>>

\* Lines 88-91 with a rollback: a failing commit drops the buffered bytes.
CommitRecheckRollback(g, s) ==
    /\ calls[g][s].pc = "recheck"
    /\ LET key == guard[g].keyPrefix \o USAGE_BYTES_KEY
           over == OverLimit(guard[g].totalBytesLimit, GetNumber(kv, key),
                             guard[g].bufferedBytes)
       IN  /\ stats' = [stats EXCEPT ![g].thrown = IF over THEN @ + 1 ELSE @]
           /\ guard' = [guard EXCEPT
                    ![g].sessionBytes = IF over THEN @ - guard[g].bufferedBytes ELSE @,
                    ![g].bufferedBytes = IF over THEN 0 ELSE @]
           /\ Touch(g, key)
    /\ calls' = [calls EXCEPT ![g][s] = NoCall]
    /\ UNCHANGED <<kv, clock, settings, wsConfig, mode>>

\* Lines 88-91: re-read the usage; throw when usage + buffer is over the limit.
CommitRecheck(g, s) ==
    /\ calls[g][s].pc = "recheck"
    /\ LET key == guard[g].keyPrefix \o USAGE_BYTES_KEY
           latestUsage == GetNumber(kv, key)
       IN  /\ stats' = [stats EXCEPT ![g].thrown =
                IF OverLimit(guard[g].totalBytesLimit, latestUsage,
                             guard[g].bufferedBytes)
                THEN @ + 1 ELSE @]
           /\ Touch(g, key)
    /\ calls' = [calls EXCEPT ![g][s] = NoCall]
    /\ UNCHANGED <<kv, clock, settings, wsConfig, guard, mode>>

\* ------------------------------------------------------------------ close
\* Lines 104-107: the synchronous head of close(), up to flushUsage's first get
\* (or, with an empty buffer, up to the get of line 108).
StartClose(g, s) ==
    /\ guard[g].pc = "done" /\ guard[g].allow
    /\ calls[g][s].op = "none"
    /\ stats[g].closes < MaxCloses
    /\ stats' = [stats EXCEPT ![g].closes = @ + 1]
    /\ IF AlreadyClosed(guard[g])
       THEN UNCHANGED <<guard, calls>>
       ELSE /\ guard' = [guard EXCEPT ![g].isClosed = TRUE]
            /\ calls' = [calls EXCEPT ![g][s] =
                    IF guard[g].bufferedBytes = 0
                    THEN [NoCall EXCEPT !.op = "close", !.pc = "closeGetActive"]
                    ELSE [NoCall EXCEPT !.op = "close", !.pc = "flushGetUsage"]]
    /\ UNCHANGED <<kv, clock, settings, wsConfig, touched, mode>>

\* Lines 108-109: latestActive; finalActive = Math.max(latestActive - 1, 0).
CloseGetActive(g, s) ==
    /\ calls[g][s].pc = "closeGetActive"
    /\ LET key == guard[g].keyPrefix \o ACTIVE_SESSIONS_KEY IN
           /\ calls' = [calls EXCEPT ![g][s].pc = "closePutActive",
                                     ![g][s].finalActive =
                                         FinalActive(GetNumber(kv, key))]
           /\ Touch(g, key)
    /\ UNCHANGED <<kv, clock, settings, wsConfig, guard, stats, mode>>

\* The `end` entry of lines 112-121.
EndEntry(g, finalActive) ==
    [type |-> "end", userID |-> userID,
     profile |-> IF guard[g].profile # "" THEN guard[g].profile ELSE "default",
     sessionId |-> g, bytes |-> Some(guard[g].sessionBytes),
     activeSessions |-> finalActive]

\* Line 110: kv.put(ACTIVE_SESSIONS_KEY, String(finalActive)); then the entry of
\* line 112 is built and appendSessionHistory issues its get.
ClosePutActive(g, s) ==
    /\ calls[g][s].pc = "closePutActive"
    /\ LET key == guard[g].keyPrefix \o ACTIVE_SESSIONS_KEY IN
           /\ kv' = [kv EXCEPT ![key] = String(calls[g][s].finalActive)]
           /\ Touch(g, key)
    /\ calls' = [calls EXCEPT ![g][s].pc = "closeGetHistory",
                              ![g][s].entry = EndEntry(g, calls[g][s].finalActive),
                              ![g][s].finalActive = 0]
    /\ stats' = [stats EXCEPT ![g].decrements = @ + 1]
    /\ UNCHANGED <<clock, settings, wsConfig, guard, mode>>

\* appendSessionHistory, lines 154-155, called from line 112.
CloseGetHistory(g, s) ==
    /\ calls[g][s].pc = "closeGetHistory"
    /\ LET key == guard[g].keyPrefix \o SESSION_HISTORY_KEY IN
           /\ calls' = [calls EXCEPT ![g][s].pc = "closePutHistory",
                                     ![g][s].history = ParseHistory(kv, key)]
           /\ Touch(g, key)
    /\ UNCHANGED <<kv, clock, settings, wsConfig, guard, stats, mode>>

\* appendSessionHistory, lines 156-157; close() returns.
ClosePutHistory(g, s) ==
    /\ calls[g][s].pc = "closePutHistory"
    /\ LET key == guard[g].keyPrefix \o SESSION_HISTORY_KEY IN
           /\ kv' = [kv EXCEPT ![key] =
                        Stringify(Appended(calls[g][s].history, calls[g][s].entry))]
           /\ Touch(g, key)
    /\ calls' = [calls EXCEPT ![g][s] = NoCall]
    /\ stats' = [stats EXCEPT ![g].ends = @ + 1]
    /\ UNCHANGED <<clock, settings, wsConfig, guard, mode>>

\* ------------------------------------------------------- the denied guard
\* Lines 129-130: async commitInboundBytes() { } of a denied guard.
DeniedCommit(g) ==
    /\ guard[g].pc = "done" /\ ~guard[g].allow
    /\ stats[g].commits < MaxCommits
    /\ stats' = [stats EXCEPT ![g].commits = @ + 1]
    /\ UNCHANGED <<kv, clock, settings, wsConfig, guard, calls, touched, mode>>

\* close() of a denied guard written like the close() of an allowed one: it
\* releases a session slot.
DeniedCloseReleases(g) ==
    /\ guard[g].pc = "done" /\ ~guard[g].allow
    /\ stats[g].closes < MaxCloses
    /\ stats' = [stats EXCEPT ![g].closes = @ + 1]
    /\ LET key == guard[g].keyPrefix \o ACTIVE_SESSIONS_KEY IN
           /\ kv' = [kv EXCEPT ![key] = String(FinalActive(GetNumber(kv, key)))]
           /\ Touch(g, key)
    /\ UNCHANGED <<clock, settings, wsConfig, guard, calls, mode>>

\* Line 131: async close() { } of a denied guard.
DeniedClose(g) ==
    /\ guard[g].pc = "done" /\ ~guard[g].allow
    /\ stats[g].closes < MaxCloses
    /\ stats' = [stats EXCEPT ![g].closes = @ + 1]
    /\ UNCHANGED <<kv, clock, settings, wsConfig, guard, calls, touched, mode>>

\* ------------------------------------------------------------------ clock
\* Date.now() moves on.
Tick ==
    /\ clock < ClockStart + MaxTicks * ClockStep
    /\ clock' = clock + ClockStep
    /\ UNCHANGED <<kv, settings, wsConfig, guard, calls, stats, touched, mode>>

\* ---------------------------------------------------------- initial states
Gb(num, den) == [num |-> num, den |-> den]

\* The global settings the behaviours run under: one user, one day, 40000 bytes.
Settings ==
    [configMaxUsers |-> 1, configDurationDays |-> 1,
     configVolumeGB |-> Gb(40000, GiB)]

\* The wsConfig descriptors: the global namespace without overrides; profile
\* "a" with two users and no expiry; profile "b" with unlimited volume.
WsConfigs ==
    {[profile |-> "", profileUsersLimit |-> Undefined,
      profileDurationDays |-> Undefined, profileVolumeGB |-> Undefined],
     [profile |-> "a", profileUsersLimit |-> Some(2),
      profileDurationDays |-> Some(0), profileVolumeGB |-> Undefined],
     [profile |-> "b", profileUsersLimit |-> Some(0),
      profileDurationDays |-> Undefined, profileVolumeGB |-> Some(Gb(0, 1))]}

\* The byte counts callers commit.
ByteInputs ==
    {[finite |-> FALSE, v |-> 0], [finite |-> TRUE, v |-> 0],
     [finite |-> TRUE, v |-> 40000], [finite |-> TRUE, v |-> 65536]}

InitGuards ==
    /\ clock = ClockStart
    /\ settings = Settings
    /\ guard = [g \in Guards |-> IdleGuard]
    /\ calls = [g \in Guards |-> [s \in Slots |-> NoCall]]
    /\ stats = [g \in Guards |-> NoStats]
    /\ touched = [g \in Guards |-> {}]
    /\ wsConfig \in WsConfigs

Modes == {"serial", "concurrent", "overlap", "admit"}

\* An entry left in the history by an earlier session.
OldEntry(i) ==
    [type |-> "end", userID |-> userID, profile |-> "default", sessionId |-> -i,
     bytes |-> Some(0), activeSessions |-> 0]

OldHistory(n) == [i \in 1 .. n |-> OldEntry(i)]

\* A store that earlier sessions have used:
\*   the global namespace has a window that began a day ago, 100000 bytes of
\*   usage, one session that was never closed and HistoryMax - 1 entries;
\*   profile "a" has not been used;
\*   profile "b" has a window that began now, 1000000 bytes of usage and a
\*   full history.
UsedStore ==
    [k \in AllKeys |->
        CASE k = KeyPrefix("") \o LAST_RESET_KEY -> String(ClockStart - MsPerDay)
          [] k = KeyPrefix("") \o USAGE_BYTES_KEY -> String(100000)
          [] k = KeyPrefix("") \o ACTIVE_SESSIONS_KEY -> String(1)
          [] k = KeyPrefix("") \o SESSION_HISTORY_KEY ->
                Stringify(OldHistory(HistoryMax - 1))
          [] k = KeyPrefix("b") \o LAST_RESET_KEY -> String(ClockStart)
          [] k = KeyPrefix("b") \o USAGE_BYTES_KEY -> String(1000000)
          [] k = KeyPrefix("b") \o ACTIVE_SESSIONS_KEY -> String(0)
          [] k = KeyPrefix("b") \o SESSION_HISTORY_KEY ->
                Stringify(OldHistory(HistoryMax))
          [] OTHER -> Absent]

\* Every namespace is fresh.
Init ==
    /\ kv = FreshStore
    /\ mode \in {"serial", "concurrent"}
    /\ InitGuards

InitSerial ==
    /\ kv = FreshStore
    /\ mode = "serial"
    /\ InitGuards

InitConcurrent ==
    /\ kv = FreshStore
    /\ mode = "concurrent"
    /\ InitGuards

InitOverlap ==
    /\ kv \in {FreshStore, UsedStore}
    /\ mode = "overlap"
    /\ InitGuards

InitUsed ==
    /\ kv = UsedStore
    /\ mode \in {"serial", "concurrent"}
    /\ InitGuards

\* ------------------------------------------------------------- scheduling
Busy(g) ==
    \/ guard[g].pc \notin {"idle", "done"}
    \/ \E s \in Slots : calls[g][s].op # "none"

Quiescent == \A g \in Guards : ~Busy(g)

\* Guards are created in the order of their indices (the index is only a name).
InOrder(g) == \A h \in Guards : h < g => guard[h].pc # "idle"

\* When the session layer may start a call on guard g in call slot s:
\*   serial      every operation runs to completion before the next one starts;
\*   concurrent  guards run concurrently and their store accesses interleave,
\*               the calls on one guard come one after the other;
\*   overlap     there is one guard, and the calls on it may overlap each other;
\*   admit       see BeginAdmit.
Free(g, s) ==
    CASE mode = "serial" -> Quiescent /\ s = 1 /\ g <= NumGuards
      [] mode = "concurrent" -> ~Busy(g) /\ s = 1 /\ g <= NumGuards
      [] mode = "overlap" -> g = 1
      [] OTHER -> FALSE

\* The commit and close calls made on one guard.
CommitCalls == IF mode = "concurrent" THEN ConcCommits ELSE MaxCommits
CloseCalls == IF mode = "concurrent" THEN ConcCloses ELSE MaxCloses

\* The steps of the operations in flight.
OpenStep(g) ==
    \/ OpenGetCreatedAt(g)
    \/ OpenPutCreatedAt(g)
    \/ OpenGetUsage(g)
    \/ OpenGetActive(g)
    \/ OpenPutActive(g)
    \/ OpenGetHistory(g)
    \/ OpenPutHistory(g)

CallStep(g, s) ==
    \/ FlushGetUsage(g, s)
    \/ FlushPutUsage(g, s)
    \/ FlushGetDaily(g, s)
    \/ FlushPutDaily(g, s)
    \/ CommitRecheck(g, s)
    \/ CloseGetActive(g, s)
    \/ ClosePutActive(g, s)
    \/ CloseGetHistory(g, s)
    \/ ClosePutHistory(g, s)

\* The calls the session layer starts; commits come before close. A new
\* request comes with any of the wsConfig descriptors.
Begin(g, s) ==
    \/ Free(g, s) /\ InOrder(g) /\ \E ws \in WsConfigs : StartOpen(g, ws)
    \/ /\ Free(g, s) /\ ~guard[g].isClosed /\ stats[g].commits < CommitCalls
       /\ \E b \in ByteInputs : StartCommit(g, s, b)
    \/ Free(g, s) /\ stats[g].closes < CloseCalls /\ StartClose(g, s)
    \/ Free(g, s) /\ stats[g].commits < CommitCalls /\ DeniedCommit(g)
    \/ Free(g, s) /\ stats[g].closes < CloseCalls /\ DeniedClose(g)

Next ==
    \/ \E g \in Guards, s \in Slots : Begin(g, s)
    \/ \E g \in Guards : OpenStep(g)
    \/ \E g \in Guards, s \in Slots : CallStep(g, s)
    \/ Tick

\* Serial and concurrent behaviours on a fresh store.
Spec == Init /\ [][Next]_vars

SpecSeq == InitSerial /\ [][Next]_vars

SpecConc == InitConcurrent /\ [][Next]_vars

SpecOverlap == InitOverlap /\ [][Next]_vars

\* Serial and concurrent behaviours on a store that earlier sessions have used.
SpecUsed == InitUsed /\ [][Next]_vars

\* ---------------------------------------------------------- admissions only
\* The requests of the profiles that have a validity duration.
AdmitRequests == {ws \in WsConfigs : ws.profile \in {"", "b"}}

InitAdmit ==
    /\ kv \in {FreshStore, UsedStore}
    /\ mode \in {"serial", "admit"}
    /\ InitGuards

\* AdmitGuards requests arrive; in mode "admit" their admissions interleave at
\* every kv.get and kv.put, in mode "serial" each runs to its return.
BeginAdmit(g) ==
    /\ mode = "serial" => Quiescent
    /\ InOrder(g)
    /\ \E ws \in AdmitRequests : StartOpen(g, ws)

NextAdmit ==
    \/ \E g \in Guards : BeginAdmit(g)
    \/ \E g \in Guards : OpenStep(g)
    \/ Tick

SpecAdmit == InitAdmit /\ [][NextAdmit]_vars

\* ------------------------------------------------------- the quota resolver
\* Global settings and request descriptors for the resolver of lines 23-25 and
\* 34-36: limits that are zero, negative, positive, whole and fractional.
ResolverSettings ==
    [configMaxUsers : {0, 1, 3},
     configDurationDays : {0, 2},
     configVolumeGB : {Gb(0, 1), Gb(-1, 1), Gb(1, 1), Gb(1, 3), Gb(40000, GiB)}]

ResolverRequests ==
    [profile : {"", "a"},
     profileUsersLimit : {Undefined, Some(0), Some(-1), Some(2)},
     profileDurationDays : {Undefined, Some(0), Some(3)},
     profileVolumeGB : {Undefined, Some(Gb(0, 1)), Some(Gb(3, 2)), Some(Gb(1, 3))}]

InitResolve ==
    /\ kv = FreshStore
    /\ mode = "serial"
    /\ clock = ClockStart
    /\ settings \in ResolverSettings
    /\ wsConfig \in WsConfigs
    /\ guard = [g \in Guards |-> IdleGuard]
    /\ calls = [g \in Guards |-> [s \in Slots |-> NoCall]]
    /\ stats = [g \in Guards |-> NoStats]
    /\ touched = [g \in Guards |-> {}]

\* One request, with any descriptor, is resolved and admitted.
NextResolve ==
    \/ \E ws \in ResolverRequests : StartOpen(1, ws)
    \/ OpenStep(1)

SpecResolve == InitResolve /\ [][NextResolve]_vars

\* ------------------------------------------- one session, calls overlapping
InitOwn ==
    /\ kv = FreshStore
    /\ mode = "overlap"
    /\ InitGuards

\* The one session of a fresh store: its commitInboundBytes and
\* commitOutboundBytes calls overlap each other; close() is called once they
\* have returned, and may be called again.
BeginOwn(s) ==
    \/ s = 1 /\ \E ws \in WsConfigs : StartOpen(1, ws)
    \/ /\ ~guard[1].isClosed /\ stats[1].commits < CommitCalls
       /\ \E b \in ByteInputs : StartCommit(1, s, b)
    \/ /\ \A t \in Slots : calls[1][t].op = "none"
       /\ stats[1].closes < CloseCalls
       /\ StartClose(1, s)

NextOwn ==
    \/ \E s \in Slots : BeginOwn(s)
    \/ OpenStep(1)
    \/ \E s \in Slots : CallStep(1, s)
    \/ Tick

SpecOwn == InitOwn /\ [][NextOwn]_vars

\* ================================================================= claims
\* The guards of a namespace that are allowed and not yet closed.
OpenGuards(prefix) ==
    {g \in Guards : /\ guard[g].pc = "done" /\ guard[g].allow
                    /\ ~guard[g].isClosed /\ guard[g].keyPrefix = prefix}

ActiveSessionCount(prefix) == GetNumber(kv, prefix \o ACTIVE_SESSIONS_KEY)
CumulativeUsageBytes(prefix) == GetNumber(kv, prefix \o USAGE_BYTES_KEY)
SessionHistory(prefix) == ParseHistory(kv, prefix \o SESSION_HISTORY_KEY)

\* C1: on a fresh store, with the operations run one at a time, a namespace
\* whose limit is N > 0 never has more than N guards allowed and not yet closed.
C1_OpenWithinLimit ==
    mode = "serial" =>
        \A g \in Guards :
            (guard[g].pc # "idle" /\ guard[g].maxUsersLimit > 0) =>
                Cardinality(OpenGuards(guard[g].keyPrefix)) <= guard[g].maxUsersLimit

\* The limit is reached and enforced: N guards are open and one more was denied.
C1_Witness ==
    /\ mode = "serial"
    /\ \E g, h \in Guards :
        /\ g \in OpenGuards(guard[g].keyPrefix)
        /\ Cardinality(OpenGuards(guard[g].keyPrefix)) = guard[g].maxUsersLimit
        /\ guard[h].pc = "done" /\ ~guard[h].allow
        /\ guard[h].keyPrefix = guard[g].keyPrefix
        /\ guard[h].reason = ReasonUsers

\* Every guard that was ever allowed has completed close(), and nothing is in flight.
AllClosed ==
    /\ Quiescent
    /\ \A g \in Guards : (guard[g].pc = "done" /\ guard[g].allow) =>
            (guard[g].isClosed /\ stats[g].ends >= 1)

\* C2 as stated: in every execution, once every allowed guard has completed
\* close(), the stored ActiveSessionCount of every namespace is 0.
C2_ClosedMeansZero ==
    AllClosed => \A p \in Profiles : ActiveSessionCount(KeyPrefix(p)) = 0

\* C2 amended: the same, when the operations run one at a time.
C2_ClosedMeansZeroSerial ==
    (mode = "serial" /\ AllClosed) =>
        \A p \in Profiles : ActiveSessionCount(KeyPrefix(p)) = 0

\* Two guards of one namespace were allowed and both have closed.
C2_Witness ==
    /\ mode = "serial"
    /\ AllClosed
    /\ \E g, h \in Guards :
        /\ g # h
        /\ guard[g].allow /\ guard[h].allow
        /\ guard[g].keyPrefix = guard[h].keyPrefix
        /\ stats[g].decrements = 1 /\ stats[h].decrements = 1

\* The result the three checks give, in their order: a denial reason or "allowed".
OpenDecision(now, windowStart, durationDays, totalVolumeBytes, usage,
             maxSessions, active) ==
    IF durationDays > 0 /\ now >= windowStart + durationDays * 86400000
    THEN ReasonExpired
    ELSE IF totalVolumeBytes > 0 /\ usage >= totalVolumeBytes
         THEN ReasonVolume
         ELSE IF maxSessions > 0 /\ active >= maxSessions
              THEN ReasonUsers
              ELSE "allowed"

\* The decision for guard g in a step of its open: from the values the open has
\* read so far and, for those it has not read yet, the values now in the store.
C3_Decision(g) ==
    LET gr == guard[g]
        windowStart ==
            IF gr.pc \in {"getCreatedAt", "putCreatedAt"}
            THEN GetNumber(kv', gr.keyPrefix \o LAST_RESET_KEY)
            ELSE gr.createdAt
        usage ==
            IF gr.pc \in {"getCreatedAt", "putCreatedAt", "getUsage"}
            THEN CumulativeUsageBytes(gr.keyPrefix)
            ELSE gr.currentUsage
        active ==
            IF gr.pc \in {"getCreatedAt", "putCreatedAt", "getUsage", "getActive"}
            THEN ActiveSessionCount(gr.keyPrefix)
            ELSE gr.activeSessions
    IN  OpenDecision(gr.now, windowStart, gr.durationDaysLimit,
                     gr.totalBytesLimit, usage, gr.maxUsersLimit, active)

C3_Step(g) ==
    LET gr == guard[g]
        post == guard'[g]
        d == C3_Decision(g)
        denied == post.pc = "done" /\ ~post.allow
    IN  (gr.pc \notin {"idle", "done"} /\ post # gr /\ post.pc # "putCreatedAt") =>
            /\ denied => post.reason = d
            /\ (post.pc = "done" /\ post.allow) => d = "allowed"
            /\ gr.pc \in {"getCreatedAt", "putCreatedAt"} =>
                    (denied <=> d = ReasonExpired)
            /\ gr.pc = "getUsage" =>
                    (d # ReasonExpired /\ (denied <=> d = ReasonVolume))
            /\ gr.pc = "getActive" =>
                    /\ d \notin {ReasonExpired, ReasonVolume}
                    /\ denied <=> d = ReasonUsers
            /\ gr.pc \in {"putActive", "getHistory", "putHistory"} =>
                    (d = "allowed" /\ ~denied)

\* C3: the result of open is the result of the expiry, volume and session-count
\* checks taken in that order; each check denies exactly when the stored value it
\* reads fails it, with its own reason, and a guard that passes all three is
\* allowed.
C3_ChecksInOrder == [][\A g \in Guards : C3_Step(g)]_vars

\* A guard was denied as expired in a namespace whose usage and session count
\* are over their limits too.
C3_Witness ==
    \E g \in Guards :
        /\ guard[g].pc = "done" /\ ~guard[g].allow
        /\ guard[g].reason = ReasonExpired
        /\ guard[g].totalBytesLimit > 0
        /\ CumulativeUsageBytes(guard[g].keyPrefix) >= guard[g].totalBytesLimit
        /\ guard[g].maxUsersLimit > 0
        /\ ActiveSessionCount(guard[g].keyPrefix) >= guard[g].maxUsersLimit

\* The keys of the counters and histories: every key but the WindowStart keys.
CounterKeys == AllKeys \ {KeyPrefix(p) \o LAST_RESET_KEY : p \in Profiles}

AdmissionPcs == {"getCreatedAt", "putCreatedAt", "getUsage", "getActive"}

C4_Step(g) ==
    \* the steps of an open up to its three checks write no counter ...
    /\ (guard'[g] # guard[g] /\ guard[g].pc \in AdmissionPcs) =>
            \A k \in CounterKeys : kv'[k] = kv[k]
    \* ... and a denial comes from one of those steps;
    /\ (guard[g].pc # "done" /\ guard'[g].pc = "done" /\ ~guard'[g].allow) =>
            guard[g].pc \in AdmissionPcs
    \* a call on a denied guard returns at once, without error or store access.
    /\ (guard[g].pc = "done" /\ ~guard[g].allow) =>
            /\ guard'[g] = guard[g]
            /\ calls'[g] = calls[g]
            /\ touched'[g] = touched[g]
            /\ stats'[g].thrown = stats[g].thrown
            /\ stats'[g] # stats[g] => kv' = kv

\* C4: a denied open leaves the counters and the history as they were, and the
\* commit and close calls on a denied guard return without error and without a
\* store access.
C4_DeniedIsNoOp == [][\A g \in Guards : C4_Step(g)]_vars

\* Commit and close were called on a denied guard.
C4_Witness ==
    \E g \in Guards :
        /\ guard[g].pc = "done" /\ ~guard[g].allow
        /\ stats[g].commits >= 1 /\ stats[g].closes >= 1

\* An allowed guard.
Allowed(g) == guard[g].pc = "done" /\ guard[g].allow

\* C5: with totalVolumeBytes = 0 no commit of an allowed guard fails, whatever
\* is committed and whatever usage is stored.
C5_UnlimitedNeverFails ==
    \A g \in Guards :
        (Allowed(g) /\ guard[g].totalBytesLimit = 0) => stats[g].thrown = 0

\* An unlimited guard has committed two full buffers on top of a stored usage of
\* a million bytes, and both commits returned.
C5_Witness ==
    \E g \in Guards :
        /\ Allowed(g) /\ ~Busy(g)
        /\ guard[g].totalBytesLimit = 0
        /\ guard[g].sessionBytes >= 2 * FlushThreshold
        /\ CumulativeUsageBytes(guard[g].keyPrefix) >= 1000000 + 2 * FlushThreshold
        /\ stats[g].thrown = 0

C6_Step(g) ==
    LET gr == guard[g]
        limit == gr.totalBytesLimit
        returns(s) == calls[g][s].pc = "recheck" /\ calls'[g][s].pc = "none"
        stored == GetNumber(kv', gr.keyPrefix \o USAGE_BYTES_KEY)
    IN  (Allowed(g) /\ limit > 0) =>
            \* a commit of a positive count ends with the check of the limit ...
            /\ guard'[g].sessionBytes > gr.sessionBytes =>
                    /\ \E s \in Slots : calls[g][s].op = "none" /\
                                        calls'[g][s].pc \in {"flushGetUsage", "recheck"}
                    /\ stats'[g].thrown = stats[g].thrown
            /\ \A s \in Slots :
                    (calls[g][s].op = "commit" /\ calls'[g][s] # calls[g][s]) =>
                        \/ calls'[g][s].op = "commit"
                        \/ returns(s)
            \* ... which fails it exactly when stored usage + buffer is above the limit
            /\ \A s \in Slots : returns(s) =>
                    IF stored + guard'[g].bufferedBytes > limit
                    THEN stats'[g].thrown = stats[g].thrown + 1
                    ELSE stats'[g].thrown = stats[g].thrown
            /\ stats'[g].thrown # stats[g].thrown => \E s \in Slots : returns(s)

\* C6: with a limit V > 0 a commit of a positive byte count fails exactly when,
\* after the bytes are buffered and the buffer flushed if it reached the
\* threshold, stored usage + buffered bytes is strictly above V.
C6_FailsExactlyAboveLimit == [][\A g \in Guards : C6_Step(g)]_vars

\* One guard's commit brought stored usage + buffer to exactly the limit and
\* returned; another guard's commit went above the limit and failed.
C6_Witness ==
    \E g, h \in Guards :
        /\ Allowed(g) /\ ~Busy(g)
        /\ guard[g].totalBytesLimit > 0
        /\ guard[g].sessionBytes > 0
        /\ CumulativeUsageBytes(guard[g].keyPrefix) + guard[g].bufferedBytes
                = guard[g].totalBytesLimit
        /\ stats[g].thrown = 0
        /\ Allowed(h) /\ guard[h].totalBytesLimit > 0 /\ stats[h].thrown >= 1

\* Guard g has committed more than its limit and no commit of it is in flight.
CommittedAboveLimit(g) ==
    /\ Allowed(g)
    /\ guard[g].totalBytesLimit > 0
    /\ guard[g].sessionBytes > guard[g].totalBytesLimit
    /\ \A s \in Slots : calls[g][s].op # "commit"

\* C7 as stated: in every execution, a guard whose committed bytes exceed the
\* limit V > 0 has had a failing commit by the end of the commit that crossed V.
C7_AboveLimitHasFailed ==
    \A g \in Guards : CommittedAboveLimit(g) => stats[g].thrown >= 1

\* C7 amended: the same, when the operations run one at a time.
C7_AboveLimitHasFailedSerial ==
    mode = "serial" =>
        \A g \in Guards : CommittedAboveLimit(g) => stats[g].thrown >= 1

\* A guard crossed the limit with its second commit, which failed.
C7_Witness ==
    /\ mode = "serial"
    /\ \E g \in Guards :
        /\ CommittedAboveLimit(g)
        /\ stats[g].commits = 2
        /\ stats[g].thrown = 1

C8_Step(g) ==
    LET closing(c) == {s \in Slots : c[g][s].op = "close"}
        called == stats'[g].closes = stats[g].closes + 1
    IN  guard[g].allow =>
            \* one decrement and one `end` entry, whatever the number of calls
            /\ stats'[g].decrements <= 1
            /\ stats'[g].ends <= 1
            /\ Cardinality(closing(calls')) <= 1
            /\ (guard'[g].isClosed /\ closing(calls') = {}) =>
                    stats'[g].decrements = 1 /\ stats'[g].ends = 1
            \* the first call closes the guard
            /\ (called /\ ~guard[g].isClosed) =>
                    guard'[g].isClosed /\ Cardinality(closing(calls')) = 1
            \* a later call accesses nothing
            /\ (called /\ guard[g].isClosed) =>
                    /\ kv' = kv
                    /\ touched' = touched
                    /\ calls' = calls
                    /\ guard' = guard

\* C8: close() is idempotent. Over any number of close calls on an allowed guard,
\* overlapping ones included, the guard decrements ActiveSessionCount once and
\* appends one `end` entry; a call after the first accesses no key of the store.
C8_CloseIdempotent == [][\A g \in Guards : C8_Step(g)]_vars

\* A second close() was called while the first was still between its decrement
\* and its history append.
C8_Witness ==
    /\ mode = "overlap"
    /\ \E g \in Guards, s \in Slots :
        /\ Allowed(g)
        /\ stats[g].closes = 2
        /\ calls[g][s].pc = "closePutHistory"
        /\ stats[g].decrements = 1
        /\ stats[g].ends = 0

\* The history an append has stored: the entry of guard g first, then the
\* entries the append had read, cut at HistoryMax.
C9_AppendedToRead(after, read, g, type) ==
    /\ Len(after) = Min(Len(read) + 1, HistoryMax)
    /\ after[1].type = type
    /\ after[1].sessionId = g
    /\ \A i \in 2 .. Len(after) : after[i] = read[i - 1]

C9_Step(g) ==
    LET key == guard[g].keyPrefix \o SESSION_HISTORY_KEY
        after == ParseHistory(kv', key)
    IN  /\ (guard[g].pc = "putHistory" /\ guard'[g].pc = "done") =>
                C9_AppendedToRead(after, guard[g].history, g, "start")
        /\ \A s \in Slots :
                (calls[g][s].pc = "closePutHistory" /\ calls'[g][s].pc = "none") =>
                    C9_AppendedToRead(after, calls[g][s].history, g, "end")

\* C9: the stored SessionHistory never has more than 50 entries, also when the
\* appends of different guards interleave; a completed append leaves its entry
\* at the head, followed by the entries it had read in their order, the oldest
\* dropped beyond 50.
C9_HistoryBounded ==
    [][ /\ \A p \in Profiles :
                Len(ParseHistory(kv', KeyPrefix(p) \o SESSION_HISTORY_KEY)) <= 50
        /\ \A g \in Guards : C9_Step(g) ]_vars

\* A session started and ended on a full history: its two entries are at the
\* head and the two oldest entries are gone.
C9_Witness ==
    \E g \in Guards :
        LET h == SessionHistory(guard[g].keyPrefix) IN
            /\ Allowed(g) /\ guard[g].isClosed /\ ~Busy(g)
            /\ Len(h) = 50
            /\ h[1].type = "end" /\ h[1].sessionId = g
            /\ h[2].type = "start" /\ h[2].sessionId = g
            /\ h[3] = OldEntry(1)
            /\ h[50] = OldEntry(48)

\* The namespace of a profile, written out.
C10_Prefix(profile) ==
    CASE profile = "" -> "limits:"
      [] profile = "a" -> "limits:profile:a:"
      [] profile = "b" -> "limits:profile:b:"

C10_Keys(profile) ==
    {C10_Prefix(profile) \o k :
        k \in {"last-reset", "active-sessions", "usage-bytes", "session-history"}
              \cup {"daily:" \o d : d \in Days}}

\* The profile guard g was created under.
C10_Created(g, p) == guard[g].pc # "idle" /\ guard[g].profile = p

C10_Step ==
    \* a guard accesses keys of its own namespace only
    /\ \A g \in Guards :
            guard'[g].pc # "idle" => touched'[g] \subseteq C10_Keys(guard'[g].profile)
    \* a key changes only by an operation of a guard of its namespace
    /\ \A p \in Profiles : \A k \in C10_Keys(p) \cap DOMAIN kv :
            kv'[k] # kv[k] =>
                \E g \in Guards : C10_Created(g, p) /\ Busy(g) /\ k \in touched'[g]
    \* the namespace of a profile without guards is as it was
    /\ \A p \in Profiles :
            (\A g \in Guards : ~C10_Created(g, p)) =>
                \A k \in C10_Keys(p) \cap DOMAIN kv : kv[k] = Absent /\ kv'[k] = Absent

\* C10: namespace isolation. The open, commit and close of a guard read and
\* write keys of the guard's own profile namespace only; WindowStart,
\* ActiveSessionCount, CumulativeUsageBytes, DailyUsageBytes and SessionHistory
\* of every other namespace stay as they were.
C10_NamespaceIsolation == [][C10_Step]_vars

\* A session of profile "a" has flushed 65536 bytes and closed, a global session
\* is open: each namespace shows its own session only, profile "b" shows none.
C10_Witness ==
    \E g, h \in Guards :
        /\ Allowed(g) /\ guard[g].profile = "a" /\ guard[g].isClosed /\ ~Busy(g)
        /\ Allowed(h) /\ guard[h].profile = "" /\ ~guard[h].isClosed
        /\ kv["limits:profile:a:usage-bytes"] = String(65536)
        /\ kv["limits:profile:a:active-sessions"] = String(0)
        /\ Len(ParseHistory(kv, "limits:profile:a:session-history")) = 2
        /\ kv["limits:usage-bytes"] = Absent
        /\ kv["limits:active-sessions"] = String(1)
        /\ Len(ParseHistory(kv, "limits:session-history")) = 1
        /\ \A k \in C10_Keys("b") : kv[k] = Absent

\* The guards of profile p whose open was denied with "Configuration expired.".
C11_DeniedExpired(p) ==
    {d \in Guards : /\ guard[d].pc = "done" /\ ~guard[d].allow
                    /\ guard[d].profile = p
                    /\ guard[d].reason = "Configuration expired."}

\* Once an open of profile p was denied as expired: the stored WindowStart is
\* valid, lies a full duration behind the clock and is not rewritten, and an
\* open that took its `now` at or after the expiry returns denied as expired,
\* without a write.
C11_Step(p) ==
    LET key == KeyPrefix(p) \o LAST_RESET_KEY
        windowStart == kv[key]
    IN  \A d \in C11_DeniedExpired(p) :
            LET expireAt == windowStart[1] + guard[d].durationDaysLimit * MsPerDay IN
            /\ guard[d].durationDaysLimit > 0
            /\ windowStart # Absent /\ windowStart[1] > 0
            /\ clock >= expireAt
            /\ clock' >= clock
            /\ kv'[key] = windowStart
            /\ \A l \in Guards :
                    ( /\ guard[l].profile = p
                      /\ guard[l].pc \notin {"idle", "done"}
                      /\ guard[l].now >= expireAt
                      /\ guard'[l] # guard[l] ) =>
                        /\ guard'[l].pc = "done"
                        /\ ~guard'[l].allow
                        /\ guard'[l].reason = "Configuration expired."
                        /\ kv' = kv

C12_Bytes(gb) ==
    CASE gb.num <= 0 -> 0
      [] gb = [num |-> 1, den |-> 1] -> 1073741824
      [] gb = [num |-> 3, den |-> 2] -> 1610612736
      [] gb = [num |-> 1, den |-> 3] -> 357913941
      [] gb = [num |-> 40000, den |-> 1073741824] -> 40000

C12_Step(g) ==
    (guard[g].pc = "idle" /\ guard'[g].pc # "idle") =>
        LET ws == wsConfig'
            users == ws.profileUsersLimit
            days == ws.profileDurationDays
            gb == ws.profileVolumeGB
        IN  /\ guard'[g].maxUsersLimit =
                    IF users # <<>> /\ users[1] > 0
                    THEN users[1] ELSE settings.configMaxUsers
            /\ guard'[g].durationDaysLimit =
                    IF days # <<>> THEN days[1] ELSE settings.configDurationDays
            /\ guard'[g].totalBytesLimit =
                    IF gb # <<>> THEN C12_Bytes(gb[1])
                    ELSE C12_Bytes(settings.configVolumeGB)

\* C12: the resolver takes the profile usersLimit when it is defined and > 0,
\* else the global maxUsers; the profile durationDays and volumeGB whenever they
\* are defined, 0 included, else the global values; totalVolumeBytes is
\* floor(GB * 2^30), and 0 for a GB value <= 0.
C12_ResolverLimits == [][\A g \in Guards : C12_Step(g)]_vars

\* A request whose profile sets all three limits to 0 under global limits of
\* 3 users, 2 days and 1 GB resolves to 3 users, no expiry and no volume limit.
C12_Witness ==
    /\ guard[1].pc # "idle"
    /\ settings = [configMaxUsers |-> 3, configDurationDays |-> 2,
                   configVolumeGB |-> [num |-> 1, den |-> 1]]
    /\ wsConfig.profileUsersLimit = <<0>>
    /\ wsConfig.profileDurationDays = <<0>>
    /\ wsConfig.profileVolumeGB = <<[num |-> 0, den |-> 1]>>
    /\ guard[1].maxUsersLimit = 3
    /\ guard[1].durationDaysLimit = 0
    /\ guard[1].totalBytesLimit = 0

\* A valid WindowStart of profile p is left as it is by the step.
C13_Step(p) ==
    LET key == KeyPrefix(p) \o LAST_RESET_KEY IN
        (kv[key] # Absent /\ kv[key][1] > 0) => kv'[key] = kv[key]

\* C13 as stated: in every execution, also when first admissions interleave at
\* the get/put of getOrInitCreatedAt, a valid stored WindowStart never changes.
C13_WindowStartImmutable == [][\A p \in Profiles : C13_Step(p)]_vars

\* C13 amended: a valid stored WindowStart never changes when the admissions run
\* one at a time.
C13_WindowStartImmutableSerial ==
    [][mode = "serial" => \A p \in Profiles : C13_Step(p)]_vars

\* The first open of a namespace stored its `now`; an open a day later read the
\* WindowStart and left it.
C13_Witness ==
    /\ mode = "serial"
    /\ clock > ClockStart
    /\ \E g, h \in Guards :
        LET key == guard[g].keyPrefix \o LAST_RESET_KEY IN
            /\ g < h
            /\ Allowed(g)
            /\ guard[h].pc = "done" /\ guard[h].keyPrefix = guard[g].keyPrefix
            /\ key \in touched[h]
            /\ kv[key] = String(ClockStart)
            /\ kv[guard[g].keyPrefix \o SESSION_HISTORY_KEY] # Absent

\* The step does not lower the stored CumulativeUsageBytes of profile p.
C14_Step(p) ==
    LET key == KeyPrefix(p) \o USAGE_BYTES_KEY IN
        GetNumber(kv', key) >= GetNumber(kv, key)

\* C14 as stated: in every execution, also when the flushes of different guards
\* of a namespace interleave between their get and put, no step lowers the
\* stored CumulativeUsageBytes.
C14_UsageMonotonic == [][\A p \in Profiles : C14_Step(p)]_vars

\* C14 amended: no step lowers the stored CumulativeUsageBytes when the
\* operations run one at a time.
C14_UsageMonotonicSerial ==
    [][mode = "serial" => \A p \in Profiles : C14_Step(p)]_vars

\* Two sessions of one namespace have flushed one after the other: 65536 bytes
\* by a commit of the first, then 40000 bytes by the close of the second.
C14_Witness ==
    /\ mode = "serial"
    /\ \E g, h \in Guards :
        /\ g # h
        /\ Allowed(g) /\ Allowed(h) /\ guard[g].keyPrefix = guard[h].keyPrefix
        /\ ~Busy(g) /\ ~Busy(h)
        /\ guard[g].sessionBytes = 65536 /\ guard[g].bufferedBytes = 0
        /\ guard[h].sessionBytes = 40000 /\ guard[h].isClosed
        /\ CumulativeUsageBytes(guard[g].keyPrefix) = 105536

C15_Step(g) ==
    LET key == guard[g].keyPrefix \o ACTIVE_SESSIONS_KEY
        limit == guard[g].maxUsersLimit
    IN  \* the count is read, compared with the limit ...
        /\ (guard[g].pc = "getActive" /\ guard'[g].pc = "putActive") =>
                /\ guard'[g].activeSessions = GetNumber(kv, key)
                /\ limit > 0 => guard'[g].activeSessions < limit
                /\ kv' = kv
        \* ... and in a later step the count read, plus 1, is written, whatever
        \* the store holds by then
        /\ (guard[g].pc = "putActive" /\ guard'[g].pc # "putActive") =>
                kv'[key] = <<guard[g].activeSessions + 1>>

\* C15: admission reads ActiveSessionCount and writes the count read + 1 in a
\* later step. When admissions of one namespace interleave between the two, the
\* stored count ends below the number of open guards, and with
\* maxConcurrentSessions = N more than N guards are allowed and open at once.
C15_ReadThenWrite == [][\A g \in Guards : C15_Step(g)]_vars

\* Two admissions of a namespace limited to one session have interleaved: both
\* guards are allowed and open, nothing is in flight, the stored count is 1.
C15_Witness ==
    /\ mode = "concurrent"
    /\ Quiescent
    /\ \E g, h \in Guards :
        /\ g # h
        /\ {g, h} \subseteq OpenGuards(guard[g].keyPrefix)
        /\ guard[g].maxUsersLimit = 1 /\ guard[h].maxUsersLimit = 1
        /\ ActiveSessionCount(guard[g].keyPrefix) = 1
        /\ Cardinality(OpenGuards(guard[g].keyPrefix)) = 2

C16_Step(g) ==
    LET gr == guard[g] IN
        \* the bytes of a commit go to the session total and to the buffer
        /\ gr'.sessionBytes # gr.sessionBytes =>
                /\ gr'.sessionBytes > gr.sessionBytes
                /\ gr'.sessionBytes - gr.sessionBytes
                        = gr'.bufferedBytes - gr.bufferedBytes
        \* the failure takes nothing back: buffer, session total and store stay
        /\ stats'[g].thrown # stats[g].thrown =>
                /\ gr' = gr
                /\ kv' = kv
        \* the buffer is emptied by a completed flush only
        /\ gr'.bufferedBytes < gr.bufferedBytes =>
                /\ gr'.bufferedBytes = 0
                /\ \E s \in Slots : calls[g][s].pc = "flushPutDaily"
        \* close() flushes what is buffered, failed commits or not
        /\ (~gr.isClosed /\ gr'.isClosed /\ gr.bufferedBytes > 0) =>
                \E s \in Slots : calls'[g][s] =
                    [NoCall EXCEPT !.op = "close", !.pc = "flushGetUsage"]

\* C16: a failing commit does not roll back. Its bytes stay in the guard's
\* session total and stay in the buffer unless a flush has already added them to
\* the counters; a following close() flushes the remainder, so the stored
\* CumulativeUsageBytes can end above totalVolumeBytes.
C16_NoRollback == [][\A g \in Guards : C16_Step(g)]_vars

\* With 65536 bytes stored under a limit of 40000, a commit of 40000 bytes
\* failed with the bytes in the buffer; close() then flushed them: 105536 stored.
C16_Witness ==
    \E g \in Guards :
        /\ Allowed(g) /\ guard[g].isClosed /\ ~Busy(g)
        /\ guard[g].totalBytesLimit = 40000
        /\ stats[g].commits = 1 /\ stats[g].thrown = 1
        /\ guard[g].sessionBytes = 40000
        /\ guard[g].bufferedBytes = 0
        /\ CumulativeUsageBytes(guard[g].keyPrefix) = 105536

\* An open of guard g returns in this step.
C17_Returns(g) == guard[g].pc \notin {"idle", "done"} /\ guard'[g].pc = "done"

C17_Step ==
    \* while a guard of a namespace is open the stored count is at least 1
    /\ \A g \in Guards :
            g \in OpenGuards(guard[g].keyPrefix) =>
                /\ ActiveSessionCount(guard[g].keyPrefix) >= 1
                /\ GetNumber(kv', guard[g].keyPrefix \o ACTIVE_SESSIONS_KEY) >= 1
                        \/ guard'[g].isClosed
    \* with a limit of one session, an open that returns while another guard of
    \* the namespace is open returns denied
    /\ \A g, h \in Guards :
            ( /\ C17_Returns(h)
              /\ guard[h].maxUsersLimit = 1
              /\ g \in OpenGuards(guard[h].keyPrefix) ) => ~guard'[h].allow

\* C17: with operations run one at a time, while an allowed guard has not been
\* closed the stored ActiveSessionCount is at least 1 in every later state
\* (nothing but close() releases the slot, the passing of time included), so
\* with maxConcurrentSessions = 1 every later open in the namespace is denied.
C17_SlotHeldUntilClose == [][mode = "serial" => C17_Step]_vars

\* A session limited to one user is open and has committed bytes, a day has
\* passed, a second open was denied for the users limit, the count is still 1.
C17_Witness ==
    /\ mode = "serial"
    /\ clock = ClockStart + MsPerDay
    /\ \E g, h \in Guards :
        /\ g \in OpenGuards(guard[g].keyPrefix)
        /\ guard[g].maxUsersLimit = 1
        /\ guard[g].sessionBytes > 0
        /\ guard[h].pc = "done" /\ ~guard[h].allow
        /\ guard[h].keyPrefix = guard[g].keyPrefix
        /\ guard[h].reason = "Maximum simultaneous users reached."
        /\ stats[h].closes > 0
        /\ ActiveSessionCount(guard[g].keyPrefix) = 1

C18_Step(g) ==
    LET gr == guard[g]
        usageKey == gr.keyPrefix \o USAGE_BYTES_KEY
        flushing(c) == \E s \in Slots : c[g][s].pc = "flushGetUsage"
    IN  \* a commit flushes only when the buffer has reached 64 KiB
        /\ gr'.sessionBytes > gr.sessionBytes =>
                /\ flushing(calls') <=> gr'.bufferedBytes >= 65536
                /\ kv' = kv
        /\ \A s \in Slots :
                LET c == calls[g][s] IN
                \* a commit writes the store in its flush only
                /\ (c.op = "commit" /\ calls'[g][s] # c /\ kv' # kv) =>
                        c.pc \in {"flushPutUsage", "flushPutDaily"}
                \* the flush adds the whole buffer to both counters ...
                /\ (c.pc = "flushPutUsage" /\ calls'[g][s] # c) =>
                        /\ kv'[usageKey] = <<c.latestUsage + gr.bufferedBytes>>
                        /\ gr.bufferedBytes >= IF c.op = "commit" THEN 65536 ELSE 1
                /\ (c.pc = "flushPutDaily" /\ calls'[g][s] # c) =>
                        /\ kv'[c.dailyKey] = <<c.dailyUsage + gr.bufferedBytes>>
                        \* ... and resets it
                        /\ gr'.bufferedBytes = 0
        \* close() flushes whatever is buffered
        /\ (~gr.isClosed /\ gr'.isClosed) =>
                (flushing(calls') <=> gr.bufferedBytes > 0)
        \* between the calls on the guard the buffer is below the threshold,
        \* and empty once the guard is closed
        /\ (gr'.pc = "done" /\ gr'.allow /\ \A s \in Slots : calls'[g][s].op = "none") =>
                /\ gr'.bufferedBytes < 65536
                /\ gr'.isClosed => gr'.bufferedBytes = 0

\* C18: a commit writes CumulativeUsageBytes and the day's DailyUsageBytes only
\* when the buffer, with the new bytes, has reached 64 KiB; the flush adds the
\* whole buffer to both counters and resets it, so after a commit returns the
\* buffer is below the threshold; close() flushes any non-zero remainder.
C18_BufferedFlush == [][\A g \in Guards : C18_Step(g)]_vars

\* A commit of 40000 bytes stayed in the buffer, a second one brought the buffer
\* to 80000 and flushed it to both counters; the guard then closed with an
\* empty buffer.
C18_Witness ==
    \E g \in Guards :
        /\ Allowed(g) /\ ~Busy(g) /\ guard[g].isClosed
        /\ stats[g].commits = 2
        /\ guard[g].sessionBytes = 80000
        /\ guard[g].bufferedBytes = 0
        /\ CumulativeUsageBytes(guard[g].keyPrefix) = 80000
        /\ \E d \in Days : GetNumber(kv, DailyKey(guard[g].keyPrefix, d)) = 80000

\* The bytes guard g has flushed to the counters of the namespace `prefix`.
C19_Flushed(g, prefix) ==
    IF Allowed(g) /\ guard[g].keyPrefix = prefix
    THEN guard[g].sessionBytes - guard[g].bufferedBytes
    ELSE 0

RECURSIVE C19_Sum(_, _)
C19_Sum(gs, prefix) ==
    IF gs = {} THEN 0
    ELSE LET g == CHOOSE x \in gs : TRUE
         IN  C19_Flushed(g, prefix) + C19_Sum(gs \ {g}, prefix)

\* The `end` entries of guard g in the history of its namespace.
C19_EndEntries(g) ==
    LET h == SessionHistory(guard[g].keyPrefix) IN
        {h[i] : i \in {j \in 1 .. Len(h) : h[j].type = "end" /\ h[j].sessionId = g}}

RECURSIVE C20_DailySum(_, _)
C20_DailySum(ds, prefix) ==
    IF ds = {} THEN 0
    ELSE LET d == CHOOSE x \in ds : TRUE
         IN  GetNumber(kv, prefix \o "daily:" \o d) + C20_DailySum(ds \ {d}, prefix)

\* C20: when the commits of one guard overlap and interleave at the get/put of
\* flushUsage, with no other writer in the namespace, no committed byte is
\* lost: once close() has completed, CumulativeUsageBytes and the sum of the
\* namespace's DailyUsageBytes counters have both grown from 0 by the guard's
\* session bytes.
C20_NoBytesLost ==
    \A g \in Guards :
        (Allowed(g) /\ guard[g].isClosed /\ ~Busy(g)) =>
            /\ CumulativeUsageBytes(guard[g].keyPrefix) = guard[g].sessionBytes
            /\ C20_DailySum(Days, guard[g].keyPrefix) = guard[g].sessionBytes

====
